---- MODULE Spec2Model ----
(***************************************************************************)
(* Model of tools/linuwu_sense_gui.py: the four "apply" handlers of the    *)
(* Linuwu Sense GTK front end, the helpers they call (path_exists,         *)
(* write_text, parse_hex_color, detect_sense_fan_path) and StatusNotifier. *)
(*                                                                         *)
(* Text is modelled as a sequence of one-character strings, so that        *)
(* formatting (str, ",".join) and parsing (int(x, 16), strip, lower) are   *)
(* computed character by character as Python computes them.                *)
(***************************************************************************)
EXTENDS Integers, Sequences, FiniteSets, TLC

VARIABLES
    fs,       \* the device tree: path -> "absent" | "dir" | file content
    label,    \* the footer Gtk.Label: its text and its CSS classes
    call,     \* the most recent handler run: inputs, what it did, how it ended
    missed,   \* surface of the most recent "device not present" failure
    entry,    \* text being typed into a colour Adw.EntryRow
    parsed    \* result of parse_hex_color on the entry text, once requested

vars == <<fs, label, call, missed, entry, parsed>>

(***************************************************************************)
(* Bounds of the model.                                                    *)
(***************************************************************************)
\* longest text typed into a colour entry
MaxLen == 7

(***************************************************************************)
(* Characters and text helpers (Python str semantics).                     *)
(***************************************************************************)
DecDigits == <<"0", "1", "2", "3", "4", "5", "6", "7", "8", "9">>

LowerHex == <<"0", "1", "2", "3", "4", "5", "6", "7", "8", "9",
              "a", "b", "c", "d", "e", "f">>

Range(s) == {s[i] : i \in DOMAIN s}

\* the literal "0123456789abcdefABCDEF" of parse_hex_color
HexChars == Range(LowerHex) \cup {"A", "B", "C", "D", "E", "F"}

Whitespace == {" ", "\t", "\n"}

\* str.lower() on one character
lower_char(c) ==
    CASE c = "A" -> "a" [] c = "B" -> "b" [] c = "C" -> "c"
      [] c = "D" -> "d" [] c = "E" -> "e" [] c = "F" -> "f"
      [] c = "G" -> "g" [] c = "Z" -> "z"
      [] OTHER -> c

\* str.lower()
lower(s) == [i \in DOMAIN s |-> lower_char(s[i])]

RECURSIVE lstrip(_)
lstrip(s) == IF s # <<>> /\ Head(s) \in Whitespace THEN lstrip(Tail(s)) ELSE s

RECURSIVE rstrip(_)
rstrip(s) ==
    IF s # <<>> /\ s[Len(s)] \in Whitespace
    THEN rstrip(SubSeq(s, 1, Len(s) - 1))
    ELSE s

\* str.strip()
strip(s) == rstrip(lstrip(s))

\* str(n) for an int: decimal, no padding, "-" for negatives
RECURSIVE str_nat(_)
str_nat(n) ==
    IF n < 10 THEN <<DecDigits[n + 1]>>
    ELSE str_nat(n \div 10) \o <<DecDigits[(n % 10) + 1]>>

str(n) == IF n < 0 THEN <<"-">> \o str_nat(0 - n) ELSE str_nat(n)

\* sep.join(parts)
RECURSIVE join(_, _)
join(sep, parts) ==
    IF parts = <<>> THEN <<>>
    ELSE IF Len(parts) = 1 THEN parts[1]
    ELSE parts[1] \o sep \o join(sep, Tail(parts))

\* value of one hex digit (already lowercased by parse_hex_color)
HexDigitValue(c) == (CHOOSE i \in DOMAIN LowerHex : LowerHex[i] = c) - 1

\* int(s, 16) for a text of hex digits
RECURSIVE int16(_)
int16(s) ==
    IF s = <<>> THEN 0
    ELSE 16 * int16(SubSeq(s, 1, Len(s) - 1)) + HexDigitValue(s[Len(s)])

(***************************************************************************)
(* parse_hex_color                                                         *)
(***************************************************************************)
InvalidColorMsg == "Use RRGGBB or #RRGGBB"

Returned(v) == [ok |-> TRUE, val |-> v]
Raised(exc, msg) == [ok |-> FALSE, exc |-> exc, msg |-> msg]

\* a slip: the result returned as typed, lower() forgotten
parse_hex_color_no_lower(s0) ==
    LET s1 == strip(s0)
        s  == IF s1 # <<>> /\ s1[1] = "#" THEN Tail(s1) ELSE s1
    IN  IF Len(s) # 6 \/ (\E i \in DOMAIN s : s[i] \notin HexChars)
        THEN Raised("ValueError", InvalidColorMsg)
        ELSE Returned(s)

\* a slip: the length test alone, the character test forgotten
parse_hex_color_len_only(s0) ==
    LET s1 == strip(s0)
        s  == IF s1 # <<>> /\ s1[1] = "#" THEN Tail(s1) ELSE s1
    IN  IF Len(s) # 6 THEN Raised("ValueError", InvalidColorMsg)
        ELSE Returned(lower(s))

parse_hex_color(s0) ==
    LET s1 == strip(s0)
        s  == IF s1 # <<>> /\ s1[1] = "#" THEN Tail(s1) ELSE s1
    IN  IF Len(s) # 6 \/ (\E i \in DOMAIN s : s[i] \notin HexChars)
        THEN Raised("ValueError", InvalidColorMsg)
        ELSE Returned(lower(s))

(***************************************************************************)
(* The device tree.  The path constants come from linuwuctl (SYSFS_BASE,   *)
(* SENSE_PRED, SENSE_NITRO, KB_PER_ZONE, KB_FOUR_MODE, PLATFORM_PROFILE);  *)
(* the two fan_speed files are os.path.join(base, "fan_speed").            *)
(***************************************************************************)
SYSFS_BASE == "SYSFS_BASE"
SENSE_PRED == "SYSFS_BASE/predator_sense"
SENSE_NITRO == "SYSFS_BASE/nitro_sense"
PRED_FAN == "SYSFS_BASE/predator_sense/fan_speed"
NITRO_FAN == "SYSFS_BASE/nitro_sense/fan_speed"
KB_PER_ZONE == "SYSFS_BASE/four_zoned_kb/per_zone_mode"
KB_FOUR_MODE == "SYSFS_BASE/four_zoned_kb/four_zone_mode"
PLATFORM_PROFILE == "/sys/firmware/acpi/platform_profile"

Dirs == {SYSFS_BASE, SENSE_PRED, SENSE_NITRO}
Files == {PRED_FAN, NITRO_FAN, KB_PER_ZONE, KB_FOUR_MODE, PLATFORM_PROFILE}
Paths == Dirs \cup Files

\* the directory a path lives in ("/" for what the model does not descend into)
Parent(p) ==
    CASE p \in {SENSE_PRED, SENSE_NITRO, KB_PER_ZONE, KB_FOUR_MODE} -> SYSFS_BASE
      [] p = PRED_FAN -> SENSE_PRED
      [] p = NITRO_FAN -> SENSE_NITRO
      [] OTHER -> "/"

Absent == [kind |-> "absent", data |-> <<>>]
Dir == [kind |-> "dir", data |-> <<>>]
File(content) == [kind |-> "file", data |-> content]

\* a path exists only inside an existing directory
Closed(f) == \A p \in Paths : f[p] # Absent /\ Parent(p) # "/" => f[Parent(p)] # Absent

RECURSIVE Under(_, _)
Under(p, d) == p # "/" /\ (p = d \/ Under(Parent(p), d))

\* a slip: a device once found missing is remembered as missing
path_exists_remembered(f, p) == missed = "none" /\ f[p] # Absent

\* os.path.exists
path_exists(f, p) == f[p] # Absent

\* os.path.join(base, "fan_speed")
FanFile(base) == IF base = SENSE_PRED THEN PRED_FAN ELSE NITRO_FAN

None == "None"

\* a slip: the priority of the two vendor directories swapped
detect_nitro_first(f) ==
    LET base == IF path_exists(f, SYSFS_BASE)
                THEN IF path_exists(f, SENSE_NITRO) THEN SENSE_NITRO
                     ELSE IF path_exists(f, SENSE_PRED) THEN SENSE_PRED
                     ELSE None
                ELSE None
    IN  IF base = None THEN None
        ELSE IF path_exists(f, FanFile(base)) THEN FanFile(base) ELSE None

detect_sense_fan_path(f) ==
    LET base == IF path_exists(f, SYSFS_BASE)
                THEN IF path_exists(f, SENSE_PRED) THEN SENSE_PRED
                     ELSE IF path_exists(f, SENSE_NITRO) THEN SENSE_NITRO
                     ELSE None
                ELSE None
    IN  IF base = None THEN None
        ELSE IF path_exists(f, FanFile(base)) THEN FanFile(base) ELSE None

\* what the operating system answers to open(path, "w") and f.write(content)
WriteResults == {"ok", "EACCES", "EIO"}

\* write_text: the file holds the content when the write goes through
write_text(f, path, content, wres) ==
    IF wres = "ok" THEN [f EXCEPT ![path] = File(content)] ELSE f

\* the exception open()/write() raise for an errno
WriteExc(wres) ==
    CASE wres = "ok" -> "none"
      [] wres = "EACCES" -> "PermissionError"
      [] OTHER -> "OSError"

(***************************************************************************)
(* StatusNotifier and the footer label.                                    *)
(***************************************************************************)
remove_css_class(css, c) == SelectSeq(css, LAMBDA x : x # c)
add_css_class(css, c) == Append(css, c)

StatusNotifier_info(lbl, msg) ==
    [text |-> msg, css |-> remove_css_class(lbl.css, "error")]

\* a slip: the class added without looking whether the label has it
StatusNotifier_error_always_add(lbl, msg) ==
    [text |-> msg, css |-> add_css_class(lbl.css, "error")]

StatusNotifier_error(lbl, msg) ==
    [text |-> msg,
     css |-> IF "error" \notin Range(lbl.css)
             THEN add_css_class(lbl.css, "error")
             ELSE lbl.css]

PermissionMsg == <<"Permission denied: run as root to apply.">>

\* The exception classes the handlers can meet, all subclasses of Exception.
Exceptions == {"FileNotFoundError", "ValueError", "IndexError",
               "PermissionError", "OSError"}

\* what a try body did: how it ended, and the write it attempted if any
Wrote(path, payload, wres, info) ==
    [exc |-> WriteExc(wres), msg |-> IF wres = "ok" THEN "" ELSE wres,
     attempted |-> TRUE, wres |-> wres,
     path |-> path, payload |-> payload, info |-> info]

Abort(exc, msg) ==
    [exc |-> exc, msg |-> msg,
     attempted |-> FALSE, wres |-> "none",
     path |-> None, payload |-> <<>>, info |-> <<>>]

\* a slip: the PermissionError clause missing, so the generic clause takes it
Handle_no_permission_clause(lbl, r) ==
    IF r.exc = "none"
    THEN [label |-> StatusNotifier_info(lbl, r.info), notes |-> 1, escaped |-> FALSE]
    ELSE IF r.exc \in Exceptions
    THEN [label |-> StatusNotifier_error(lbl, <<"Error: ", r.msg>>),
          notes |-> 1, escaped |-> FALSE]
    ELSE [label |-> lbl, notes |-> 0, escaped |-> TRUE]

\* the try / except PermissionError / except Exception of every handler:
\* notifier.info at the end of the body, notifier.error in either clause
Handle(lbl, r) ==
    IF r.exc = "none"
    THEN [label |-> StatusNotifier_info(lbl, r.info), notes |-> 1, escaped |-> FALSE]
    ELSE IF r.exc = "PermissionError"
    THEN [label |-> StatusNotifier_error(lbl, PermissionMsg),
          notes |-> 1, escaped |-> FALSE]
    ELSE IF r.exc \in Exceptions
    THEN [label |-> StatusNotifier_error(lbl, <<"Error: ", r.msg>>),
          notes |-> 1, escaped |-> FALSE]
    ELSE [label |-> lbl, notes |-> 0, escaped |-> TRUE]

(***************************************************************************)
(* The input rows.  An Adw.SpinRow holds its Gtk.Adjustment's value, which *)
(* GTK keeps within [lower, upper] whatever is typed into the row.         *)
(***************************************************************************)
PctMax == 100
SpeedMax == 9
DirMin == 1
DirMax == 2

\* a slip: the row built without bounds
spin_value_unbounded(lo, hi, typed) == typed

\* int(row.get_value()) of a SpinRow with Gtk.Adjustment(lower=lo, upper=hi)
spin_value(lo, hi, typed) == IF typed < lo THEN lo ELSE IF typed > hi THEN hi ELSE typed

\* the fixed mode table of linuwuctl, in key order
mode_names == <<"static", "breathing", "wave">>

MODE_NAME_TO_ID(name) ==
    CASE name = "static" -> 0
      [] name = "breathing" -> 1
      [] name = "wave" -> 3
      [] OTHER -> 0

\* the fallback list of _build_power_page
DefaultChoices == <<"balanced", "performance", "power-saver">>

(***************************************************************************)
(* apply_static                                                            *)
(***************************************************************************)
\* a slip: the single colour not replicated to the four zones
replicate_not(colors) == colors

\* "if len(colors) == 1: colors = colors * 4"
replicate(colors) ==
    IF Len(colors) = 1 THEN colors \o colors \o colors \o colors ELSE colors

static_payload(colors, brightness) ==
    join(<<",">>, colors \o <<str(brightness)>>) \o <<"\n">>

apply_static_try(f, w, wres) ==
    IF ~path_exists(f, KB_PER_ZONE)
    THEN Abort("FileNotFoundError", "Missing per_zone_mode")
    ELSE
      LET texts == IF w.single THEN <<w.single_color>> ELSE w.zones
          res   == [i \in DOMAIN texts |-> parse_hex_color(texts[i])]
      IN  IF \E i \in DOMAIN res : ~res[i].ok
          THEN Abort("ValueError", InvalidColorMsg)
          ELSE
            LET colors == [i \in DOMAIN res |-> res[i].val]
            IN  IF ~w.single /\ Len(colors) # 4
                THEN Abort("ValueError", "Provide 4 colors")
                ELSE Wrote(KB_PER_ZONE,
                           static_payload(replicate(colors), w.brightness),
                           wres, <<"Keyboard static colors applied">>)

(***************************************************************************)
(* apply_effect                                                            *)
(***************************************************************************)
\* a slip: the blue byte read one digit early
rgb_of_shifted(col) ==
    <<int16(SubSeq(col, 1, 2)), int16(SubSeq(col, 3, 4)), int16(SubSeq(col, 4, 5))>>

\* int(col[0:2], 16), int(col[2:4], 16), int(col[4:6], 16)
rgb_of(col) ==
    <<int16(SubSeq(col, 1, 2)), int16(SubSeq(col, 3, 4)), int16(SubSeq(col, 5, 6))>>

effect_payload(fields) ==
    join(<<",">>, [i \in DOMAIN fields |-> str(fields[i])]) \o <<"\n">>

apply_effect_try(f, w, wres) ==
    IF ~path_exists(f, KB_FOUR_MODE)
    THEN Abort("FileNotFoundError", "Missing four_zone_mode")
    ELSE IF w.mode + 1 \notin DOMAIN mode_names
    THEN Abort("IndexError", "list index out of range")
    ELSE
      LET mode_id == MODE_NAME_TO_ID(mode_names[w.mode + 1])
          ctext   == strip(w.color)
          col     == IF ctext # <<>> THEN parse_hex_color(ctext) ELSE Returned(<<>>)
      IN  IF ~col.ok
          THEN Abort("ValueError", InvalidColorMsg)
          ELSE
            LET rgb == IF ctext # <<>> THEN rgb_of(col.val) ELSE <<0, 0, 0>>
            IN  Wrote(KB_FOUR_MODE,
                      effect_payload(<<mode_id, w.speed, w.brightness, w.direction>>
                                     \o rgb),
                      wres, <<"Keyboard effect applied">>)

(***************************************************************************)
(* apply_profile                                                           *)
(***************************************************************************)
apply_profile_try(f, choices, w, wres) ==
    IF ~path_exists(f, PLATFORM_PROFILE)
    THEN Abort("FileNotFoundError", "Missing platform_profile")
    ELSE IF choices # <<>> /\ w.selected + 1 \notin DOMAIN choices
    THEN Abort("IndexError", "list index out of range")
    ELSE
      LET sel == IF choices # <<>> THEN choices[w.selected + 1] ELSE ""
      IN  IF sel = ""
          THEN Abort("ValueError", "No profile selected")
          ELSE Wrote(PLATFORM_PROFILE, <<sel, "\n">>, wres,
                     <<"Power profile set to ", sel>>)

(***************************************************************************)
(* apply_fans                                                              *)
(***************************************************************************)
\* a slip: a manual 0 taken for "auto", the other fan's value dropped
fan_payload_zero_is_auto(cpu, gpu) ==
    IF cpu = 0 \/ gpu = 0 THEN <<"0", ",", "0", "\n">>
    ELSE str(cpu) \o <<",">> \o str(gpu) \o <<"\n">>

\* f"{cpu},{gpu}\n"
fan_payload(cpu, gpu) == str(cpu) \o <<",">> \o str(gpu) \o <<"\n">>

apply_fans_try(f, w, wres) ==
    LET p == detect_sense_fan_path(f)
    IN  IF p = None
        THEN Abort("FileNotFoundError", "fan_speed path not found (is the module loaded?)")
        ELSE IF w.auto
        THEN Wrote(p, <<"0", ",", "0", "\n">>, wres, <<"Fan settings applied">>)
        ELSE IF ~(0 <= w.cpu /\ w.cpu <= 100 /\ 0 <= w.gpu /\ w.gpu <= 100)
        THEN Abort("ValueError", "Percentages must be 0-100")
        ELSE Wrote(p, fan_payload(w.cpu, w.gpu), wres, <<"Fan settings applied">>)

(***************************************************************************)
(* What the user puts into the rows before pressing a button.              *)
(***************************************************************************)
T_empty == <<>>
T_blank == <<" ">>
T_00aaff == <<"0", "0", "a", "a", "f", "f">>
T_hash == <<"#", "F", "F", "0", "0", "A", "a">>
T_spaced == <<" ", "1", "2", "c", "D", "e", "f", " ">>
T_short == <<"f", "f", "0", "0", "a">>
T_nonhex == <<"g", "g", "0", "0", "0", "0">>
T_red == <<"f", "f", "0", "0", "0", "0">>
T_green == <<"#", "0", "0", "F", "F", "0", "0">>
T_blue == <<"0", "0", "0", "0", "9", "9">>

Z_default == <<T_00aaff, T_00aaff, T_00aaff, T_00aaff>>
Z_distinct == <<T_red, T_green, T_blue, T_hash>>
Z_bad3 == <<T_red, T_green, T_short, T_hash>>
Z_bad1 == <<T_nonhex, T_green, T_blue, T_hash>>

StaticEntry(single, text, zones, typed) ==
    [single |-> single, single_color |-> text, zones |-> zones, brightness |-> typed]

StaticInputs ==
    {StaticEntry(TRUE, t, Z_default, b) :
        t \in {T_00aaff, T_hash, T_spaced, T_short, T_nonhex, T_empty},
        b \in {-1, 7, 100, 150}}
    \cup
    {StaticEntry(FALSE, T_00aaff, z, b) :
        z \in {Z_default, Z_distinct, Z_bad3, Z_bad1},
        b \in {-1, 7, 100, 150}}

StaticFew ==
    {StaticEntry(TRUE, T_00aaff, Z_default, 100),
     StaticEntry(TRUE, T_nonhex, Z_default, 100),
     StaticEntry(FALSE, T_00aaff, Z_bad3, 100)}

\* typed brightness at and beyond both ends of the row's range
StaticRange == {StaticEntry(TRUE, T_00aaff, Z_default, b) : b \in {-1, 0, 100, 150}}

EffectEntry(mode, speed, brightness, direction, color) ==
    [mode |-> mode, speed |-> speed, brightness |-> brightness,
     direction |-> direction, color |-> color]

EffectInputs ==
    {EffectEntry(m, sp, 100, d, c) :
        m \in {0, 2}, sp \in {1, 12}, d \in {1, 2},
        c \in {T_empty, T_blank, T_hash, T_spaced, T_short, T_nonhex}}

EffectFew == {EffectEntry(2, 1, 100, 2, T_empty), EffectEntry(2, 1, 100, 2, T_short)}

\* typed speed, brightness and direction at and beyond both ends of their ranges
EffectRange ==
    {EffectEntry(2, -1, -1, 0, T_empty), EffectEntry(2, 0, 0, 1, T_empty),
     EffectEntry(2, 9, 100, 2, T_empty), EffectEntry(2, 12, 150, 3, T_empty)}

FanEntry(auto, cpu, gpu) == [auto |-> auto, cpu |-> cpu, gpu |-> gpu]

FanInputs ==
    {FanEntry(a, c, g) : a \in BOOLEAN, c \in {0, 7, 100}, g \in {0, 40}}

FanFew == {FanEntry(FALSE, 40, 60)}

\* typed percentages at and beyond both ends of the rows' range
FanRange ==
    {FanEntry(FALSE, -5, -5), FanEntry(FALSE, 0, 0),
     FanEntry(FALSE, 100, 100), FanEntry(FALSE, 150, 150), FanEntry(TRUE, 150, -5)}

ProfileEntry(selected) == [selected |-> selected]

ProfileFew == {ProfileEntry(1)}

\* the values the handlers read from the rows
StaticRows(u) ==
    [single |-> u.single, single_color |-> u.single_color, zones |-> u.zones,
     brightness |-> spin_value(0, PctMax, u.brightness)]

EffectRows(u) ==
    [mode |-> u.mode, color |-> u.color,
     speed |-> spin_value(0, SpeedMax, u.speed),
     brightness |-> spin_value(0, PctMax, u.brightness),
     direction |-> spin_value(DirMin, DirMax, u.direction)]

FanRows(u) ==
    [auto |-> u.auto,
     cpu |-> spin_value(0, PctMax, u.cpu),
     gpu |-> spin_value(0, PctMax, u.gpu)]

(***************************************************************************)
(* The state machine.                                                      *)
(***************************************************************************)
NoCall ==
    [op |-> "none", u |-> ProfileEntry(0), r |-> Abort("none", ""),
     notes |-> 0, escaped |-> FALSE]

NotParsed == Raised("none", "")

\* do_activate: the window is up, the label says "Ready"; the module is not loaded
Init ==
    /\ fs = [p \in Paths |-> Absent]
    /\ label = StatusNotifier_info([text |-> <<>>, css |-> <<"dim-label">>], <<"Ready">>)
    /\ call = NoCall
    /\ missed = "none"
    /\ entry = <<>>
    /\ parsed = NotParsed

\* the kernel module (or the platform driver) creates a path
Appear(p) ==
    /\ fs[p] = Absent
    /\ Parent(p) # "/" => fs[Parent(p)] # Absent
    /\ fs' = [fs EXCEPT ![p] = IF p \in Dirs THEN Dir ELSE File(<<>>)]
    /\ UNCHANGED <<label, call, missed, entry, parsed>>

\* a path goes away, with everything under it
Disappear(p) ==
    /\ fs[p] # Absent
    /\ fs' = [q \in Paths |-> IF Under(q, p) THEN Absent ELSE fs[q]]
    /\ UNCHANGED <<label, call, missed, entry, parsed>>

Env(P) == \E p \in P : Appear(p) \/ Disappear(p)

\* one run of a clicked handler: the try body, then the clause that takes its end
Clicked(op, u, r, wres) ==
    LET h == Handle(label, r)
    IN  /\ fs' = IF r.attempted THEN write_text(fs, r.path, r.payload, wres) ELSE fs
        /\ label' = h.label
        /\ call' = [op |-> op, u |-> u, r |-> r, notes |-> h.notes, escaped |-> h.escaped]
        /\ missed' = IF r.exc = "FileNotFoundError" THEN op ELSE missed
        /\ UNCHANGED <<entry, parsed>>

ApplyStatic(U) ==
    \E u \in U, wres \in WriteResults :
        Clicked("static", u, apply_static_try(fs, StaticRows(u), wres), wres)

ApplyEffect(U) ==
    \E u \in U, wres \in WriteResults :
        Clicked("effect", u, apply_effect_try(fs, EffectRows(u), wres), wres)

ApplyProfile(U) ==
    \E u \in U, wres \in WriteResults :
        Clicked("profile", u, apply_profile_try(fs, DefaultChoices, u, wres), wres)

ApplyFans(U) ==
    \E u \in U, wres \in WriteResults :
        Clicked("fans", u, apply_fans_try(fs, FanRows(u), wres), wres)

\* the characters at hand for a colour entry: '#', blank, a lowercase and an
\* uppercase hex digit, and a letter that is no hex digit
Alphabet == {"#", " ", "a", "F", "g"}

TypeChar(c) ==
    /\ Len(entry) < MaxLen
    /\ entry' = Append(entry, c)
    /\ parsed' = NotParsed
    /\ UNCHANGED <<fs, label, call, missed>>

ParseEntry ==
    /\ parsed' = parse_hex_color(entry)
    /\ UNCHANGED <<fs, label, call, missed, entry>>

\* all four surfaces, a few inputs each
Next ==
    \/ Env(Paths)
    \/ ApplyStatic(StaticFew)
    \/ ApplyEffect(EffectFew)
    \/ ApplyProfile(ProfileFew)
    \/ ApplyFans(FanFew)

Spec == Init /\ [][Next]_vars

\* the three surfaces with numeric rows, values typed at and beyond the ends
NextRange ==
    \/ Env({SYSFS_BASE, KB_PER_ZONE, KB_FOUR_MODE, SENSE_PRED, PRED_FAN})
    \/ ApplyStatic(StaticRange)
    \/ ApplyEffect(EffectRange)
    \/ ApplyFans(FanRange)

SpecRange == Init /\ [][NextRange]_vars

\* the keyboard static surface, many inputs
NextStatic == Env({SYSFS_BASE, KB_PER_ZONE}) \/ ApplyStatic(StaticInputs)

SpecStatic == Init /\ [][NextStatic]_vars

\* the keyboard effect surface, many inputs
NextEffect == Env({SYSFS_BASE, KB_FOUR_MODE}) \/ ApplyEffect(EffectInputs)

SpecEffect == Init /\ [][NextEffect]_vars

\* the fan surface, many inputs
NextFans ==
    \/ Env({SYSFS_BASE, SENSE_PRED, SENSE_NITRO, PRED_FAN, NITRO_FAN})
    \/ ApplyFans(FanInputs)

SpecFans == Init /\ [][NextFans]_vars

\* typing into a colour entry and validating it
NextColor == (\E c \in Alphabet : TypeChar(c)) \/ ParseEntry

SpecColor == Init /\ [][NextColor]_vars

(***************************************************************************)
(* Vocabulary of the properties, written from their statements: what a     *)
(* well-formed colour is, how a payload line splits into fields, what the  *)
(* decimal text of a number is.                                            *)
(***************************************************************************)
Blanks == {" ", "\t", "\n"}
LowerHexSet == {"0", "1", "2", "3", "4", "5", "6", "7", "8", "9",
                "a", "b", "c", "d", "e", "f"}
UpperHexSet == {"A", "B", "C", "D", "E", "F"}
CasePairs == {<<"A", "a">>, <<"B", "b">>, <<"C", "c">>,
              <<"D", "d">>, <<"E", "e">>, <<"F", "f">>}

\* s without its leading and trailing blanks
Trim(s) ==
    LET keep == {i \in DOMAIN s : s[i] \notin Blanks}
    IN  IF keep = {} THEN <<>>
        ELSE SubSeq(s, CHOOSE i \in keep : \A j \in keep : i <= j,
                       CHOOSE i \in keep : \A j \in keep : j <= i)

\* s without one leading '#'
Unhash(s) == IF Len(s) >= 1 /\ s[1] = "#" THEN SubSeq(s, 2, Len(s)) ELSE s

SixHex(b) == Len(b) = 6 /\ \A i \in 1 .. 6 : b[i] \in LowerHexSet \cup UpperHexSet

\* v is b in lowercase
Lowercased(v, b) ==
    /\ Len(v) = 6 /\ Len(b) = 6
    /\ \A i \in 1 .. 6 : v[i] \in LowerHexSet /\ (v[i] = b[i] \/ <<b[i], v[i]>> \in CasePairs)

\* well-formed as the specification words it: only a leading '#' is taken off
WellFormedStrict(s) == SixHex(Unhash(s))

\* well-formed as the code takes it: blanks around the text are taken off first
WellFormed(s) == SixHex(Unhash(Trim(s)))

\* the text splits at every sep
RECURSIVE Split(_, _)
Split(s, sep) ==
    LET at == {i \in DOMAIN s : s[i] = sep}
    IN  IF at = {} THEN <<s>>
        ELSE LET k == CHOOSE i \in at : \A j \in at : i <= j
             IN  <<SubSeq(s, 1, k - 1)>> \o Split(SubSeq(s, k + 1, Len(s)), sep)

DigitValue(c) ==
    CASE c = "0" -> 0 [] c = "1" -> 1 [] c = "2" -> 2 [] c = "3" -> 3 [] c = "4" -> 4
      [] c = "5" -> 5 [] c = "6" -> 6 [] c = "7" -> 7 [] c = "8" -> 8 [] c = "9" -> 9
      [] c = "a" -> 10 [] c = "b" -> 11 [] c = "c" -> 12 [] c = "d" -> 13
      [] c = "e" -> 14 [] c = "f" -> 15 [] OTHER -> -1

RECURSIVE Pow10(_)
Pow10(k) == IF k = 0 THEN 1 ELSE 10 * Pow10(k - 1)

RECURSIVE SumOver(_, _)
SumOver(t, S) ==
    IF S = {} THEN 0
    ELSE LET i == CHOOSE x \in S : TRUE
         IN  DigitValue(t[i]) * Pow10(Len(t) - i) + SumOver(t, S \ {i})

\* t is the plain decimal text of the natural number n: digits only, no padding
DecimalOf(t, n) ==
    /\ Len(t) >= 1
    /\ \A i \in DOMAIN t : DigitValue(t[i]) \in 0 .. 9
    /\ (Len(t) > 1 => t[1] # "0")
    /\ SumOver(t, DOMAIN t) = n

\* P is one line: it ends in its only newline
OneLine(P) == Len(P) >= 1 /\ P[Len(P)] = "\n" /\ \A i \in 1 .. Len(P) - 1 : P[i] # "\n"

\* the comma-separated fields of a line
Fields(P) == Split(SubSeq(P, 1, Len(P) - 1), ",")

\* the nearest value of lo..hi
Nearest(lo, hi, n) == CHOOSE v \in lo .. hi : \A x \in lo .. hi : (v - n) * (v - n) <= (x - n) * (x - n)

Exists(f, p) == f[p].kind # "absent"

Ops == {"static", "effect", "profile", "fans"}

Failed == call.op \in Ops /\ ~(call.r.attempted /\ call.r.wres = "ok")

(***************************************************************************)
(* C3: colour validation.                                                  *)
(***************************************************************************)
\* The statement as the specification words it: a text is accepted exactly when,
\* one leading '#' taken off, six hex digits remain; blanks make it invalid.
C3_OnlyHashStripped ==
    parsed # NotParsed =>
        /\ parsed.ok <=> WellFormedStrict(entry)
        /\ parsed.ok => Lowercased(parsed.val, Unhash(entry))

\* C3 (amended): parse_hex_color(s) succeeds if and only if s, after removing
\* the blanks around it and then a single optional leading '#', consists of
\* exactly 6 hex digits of either case; it then returns those 6 characters
\* lowercased; every other text is rejected with the invalid-format error.
C3_ColorValidation ==
    parsed # NotParsed =>
        /\ parsed.ok <=> WellFormed(entry)
        /\ parsed.ok => Lowercased(parsed.val, Unhash(Trim(entry)))
        /\ ~parsed.ok => parsed.exc = "ValueError" /\ parsed.msg = InvalidColorMsg

\* a text with a blank in front and an uppercase digit has been accepted
C3_Witness ==
    /\ parsed # NotParsed /\ parsed.ok
    /\ Len(entry) = 7 /\ entry[1] = " " /\ "F" \in Range(entry)

(***************************************************************************)
(* C2: fan path resolution.                                                *)
(***************************************************************************)
\* the resolution as the specification words it: the first fan_speed file wins
FirstFanFile(f) ==
    IF Exists(f, PRED_FAN) THEN PRED_FAN
    ELSE IF Exists(f, NITRO_FAN) THEN NITRO_FAN
    ELSE None

\* the resolution by vendor directory: the predator directory, when it exists,
\* decides alone; the nitro directory is looked at only without it
FanDevice(f) ==
    IF Exists(f, SENSE_PRED)
    THEN IF Exists(f, PRED_FAN) THEN PRED_FAN ELSE None
    ELSE IF Exists(f, NITRO_FAN) THEN NITRO_FAN ELSE None

\* the path a fans run resolved
Resolved(c) == IF c.r.exc = "FileNotFoundError" THEN None ELSE c.r.path

\* The statement as the specification words it: the predator fan_speed file if
\* it exists, otherwise the nitro fan_speed file if it exists, otherwise not found.
C2_FirstFileWins ==
    [][ApplyFans(FanInputs) => Resolved(call') = FirstFanFile(fs)]_vars

\* C2 (amended): with paths existing only inside existing directories,
\* detect_sense_fan_path returns the predator fan_speed path if the predator
\* directory and that file exist, the nitro fan_speed path if the predator
\* directory does not exist and the nitro fan_speed file does, and not-found
\* otherwise; so the predator path when both files exist, not-found when the
\* sysfs base is absent, and not-found when the predator directory exists
\* without its fan_speed file even if the nitro file exists.
C2_FanPathByDirectory ==
    [][ApplyFans(FanInputs) =>
          /\ Closed(fs)
          /\ Resolved(call') = FanDevice(fs)
          /\ (Exists(fs, PRED_FAN) /\ Exists(fs, NITRO_FAN) => Resolved(call') = PRED_FAN)
          /\ (~Exists(fs, SYSFS_BASE) => Resolved(call') = None)]_vars

\* both fan_speed files exist and the last fans run wrote the predator one
C2_Witness ==
    /\ call.op = "fans" /\ call.r.attempted /\ call.r.wres = "ok"
    /\ call.r.path = PRED_FAN
    /\ Exists(fs, NITRO_FAN)
    /\ fs[PRED_FAN].data = call.r.payload

(***************************************************************************)
(* The four handlers as steps, and what their statements call a missing    *)
(* device and an invalid input.                                            *)
(***************************************************************************)
StepOf(op) ==
    /\ call'.op = op
    /\ CASE op = "static" -> ApplyStatic(StaticFew)
         [] op = "effect" -> ApplyEffect(EffectFew)
         [] op = "profile" -> ApplyProfile(ProfileFew)
         [] op = "fans" -> ApplyFans(FanFew)

\* the surface's device path is absent from the tree f
DeviceAbsent(op, f) ==
    CASE op = "static" -> ~Exists(f, KB_PER_ZONE)
      [] op = "effect" -> ~Exists(f, KB_FOUR_MODE)
      [] op = "profile" -> ~Exists(f, PLATFORM_PROFILE)
      [] op = "fans" -> FanDevice(f) = None

\* the file a surface writes in the tree f
DeviceOf(op, f) ==
    CASE op = "static" -> KB_PER_ZONE
      [] op = "effect" -> KB_FOUR_MODE
      [] op = "profile" -> PLATFORM_PROFILE
      [] op = "fans" -> FanDevice(f)

\* the input fails validation: a malformed colour among those the mode uses,
\* a manual fan percentage outside 0..100, no profile selected
InvalidInput(op, u) ==
    CASE op = "static" ->
            IF u.single THEN ~WellFormed(u.single_color)
            ELSE \E i \in 1 .. 4 : ~WellFormed(u.zones[i])
      [] op = "effect" -> Trim(u.color) # <<>> /\ ~WellFormed(u.color)
      [] op = "profile" -> u.selected + 1 \notin DOMAIN DefaultChoices
      [] op = "fans" ->
            ~u.auto /\ (FanRows(u).cpu \notin 0 .. 100 \/ FanRows(u).gpu \notin 0 .. 100)

(***************************************************************************)
(* C1: fail fast, no partial writes.                                       *)
(***************************************************************************)
\* C1: in each of the four apply operations, if the device path is absent at
\* call time or an input fails validation, the write is not attempted during
\* that call and every device file holds what it held before the call.
C1_FailFast ==
    [][\A op \in Ops :
          StepOf(op) /\ (DeviceAbsent(op, fs) \/ InvalidInput(op, call'.u)) =>
              /\ ~call'.r.attempted
              /\ call'.r.exc \in {"FileNotFoundError", "ValueError", "IndexError"}
              /\ fs' = fs]_vars

\* a malformed colour was refused while per_zone_mode kept an earlier payload
C1_Witness ==
    /\ call.op = "static" /\ call.r.exc = "ValueError" /\ ~call.r.attempted
    /\ ~WellFormed(call.u.single_color)
    /\ Exists(fs, KB_PER_ZONE) /\ fs[KB_PER_ZONE].data # <<>>

(***************************************************************************)
(* C4: permission failures are a distinct outcome.                         *)
(***************************************************************************)
\* C4: in every apply operation, when the write was attempted (the path
\* existed, the input was valid) and failed with a permission error, the label
\* shows the permission-denied message suggesting root, never the generic
\* "Error: ..." one; any other write failure shows "Error: " followed by the
\* underlying message.
C4_PermissionDistinct ==
    call.op \in Ops /\ call.r.attempted =>
        /\ call.r.wres = "EACCES" =>
              label.text = <<"Permission denied: run as root to apply.">>
        /\ call.r.wres \notin {"ok", "EACCES"} =>
              label.text = <<"Error: ", call.r.wres>>

\* a fans write was refused for lack of permission and reported as such
C4_Witness ==
    /\ call.op = "fans" /\ call.r.attempted /\ call.r.wres = "EACCES"
    /\ label.text = <<"Permission denied: run as root to apply.">>
    /\ "error" \in Range(label.css)

(***************************************************************************)
(* C5: availability is resolved anew by every call.                        *)
(***************************************************************************)
\* C5: each apply call fails with the device-not-present error, writing
\* nothing, exactly when its surface's device path is absent at the time of
\* that call, whatever an earlier call observed (missed); a surface found
\* absent by an earlier call and present now is written to.
C5_ResolvedEveryCall ==
    [][\A op \in Ops :
          StepOf(op) =>
              /\ call'.r.exc = "FileNotFoundError" <=> DeviceAbsent(op, fs)
              /\ DeviceAbsent(op, fs) => ~call'.r.attempted /\ fs' = fs
              /\ ~DeviceAbsent(op, fs) /\ ~InvalidInput(op, call'.u) =>
                    /\ call'.r.attempted /\ call'.r.path = DeviceOf(op, fs)
                    /\ call'.r.wres = "ok" => fs'[DeviceOf(op, fs)].data = call'.r.payload]_vars

\* the fans surface was missing for an earlier call and is written to now
C5_Witness ==
    /\ missed = "fans" /\ call.op = "fans"
    /\ call.r.attempted /\ call.r.wres = "ok"
    /\ fs[call.r.path].data = call.r.payload /\ call.r.payload # <<>>

(***************************************************************************)
(* C10: the status reflects the last operation.                            *)
(***************************************************************************)
InfoTexts ==
    {<<"Keyboard static colors applied">>, <<"Keyboard effect applied">>,
     <<"Fan settings applied">>}
    \cup {<<"Power profile set to ", DefaultChoices[i]>> : i \in DOMAIN DefaultChoices}

ErrorClassCount == Cardinality({i \in DOMAIN label.css : label.css[i] = "error"})

\* C10: every apply call ends with exactly one status notification and no
\* exception leaves the handler; the notification is an info one if and only
\* if the write was performed and succeeded; the label carries the "error"
\* class, once, if and only if the most recent apply failed.
C10_StatusReflectsLast ==
    /\ ErrorClassCount <= 1
    /\ call.op \in Ops =>
          /\ call.notes = 1 /\ ~call.escaped
          /\ label.text \in InfoTexts <=> call.r.attempted /\ call.r.wres = "ok"
          /\ ErrorClassCount = 1 <=> Failed

\* the last apply was refused for a malformed colour and the label shows it
C10_Witness ==
    /\ call.op = "effect" /\ call.r.exc = "ValueError"
    /\ label.text = <<"Error: ", "Use RRGGBB or #RRGGBB">>
    /\ ErrorClassCount = 1

(***************************************************************************)
(* C6: the keyboard static payload.                                        *)
(***************************************************************************)
\* the colour a well-formed text stands for is c
Validated(c, text) == WellFormed(text) /\ Lowercased(c, Unhash(Trim(text)))

\* P is 'c1,c2,c3,c4,brightness' and a newline: four 6-digit lowercase hex
\* colours and a plain decimal number
StaticShape(P) ==
    /\ OneLine(P)
    /\ Len(Fields(P)) = 5
    /\ \A i \in 1 .. 4 : Len(Fields(P)[i]) = 6 /\ Range(Fields(P)[i]) \subseteq LowerHexSet
    /\ \E n \in 0 .. PctMax : DecimalOf(Fields(P)[5], n)

\* C6: every payload apply_static writes to per_zone_mode is exactly
\* 'c1,c2,c3,c4,brightness' and one newline, each ci a 6-character lowercase
\* hex colour without '#', brightness plain decimal text; in single-colour
\* mode all four ci are the one validated colour, in per-zone mode ci is the
\* validated colour of zone i, in zone order.
C6_StaticPayload ==
    /\ Exists(fs, KB_PER_ZONE) /\ fs[KB_PER_ZONE].data # <<>> =>
          StaticShape(fs[KB_PER_ZONE].data)
    /\ call.op = "static" /\ call.r.attempted =>
          /\ call.r.path = KB_PER_ZONE
          /\ StaticShape(call.r.payload)
          /\ \A i \in 1 .. 4 :
                Validated(Fields(call.r.payload)[i],
                          IF call.u.single THEN call.u.single_color ELSE call.u.zones[i])
          /\ call.u.brightness \in 0 .. PctMax =>
                DecimalOf(Fields(call.r.payload)[5], call.u.brightness)

\* four different zone colours were written, in zone order
C6_Witness ==
    /\ call.op = "static" /\ ~call.u.single /\ call.u.zones = Z_distinct
    /\ call.r.attempted /\ call.r.wres = "ok"
    /\ Exists(fs, KB_PER_ZONE) /\ fs[KB_PER_ZONE].data = call.r.payload
    /\ Fields(call.r.payload) =
          <<T_red, <<"0", "0", "f", "f", "0", "0">>, T_blue,
            <<"f", "f", "0", "0", "a", "a">>, <<"7">>>>

(***************************************************************************)
(* C7: the keyboard effect payload.                                        *)
(***************************************************************************)
\* the byte two hex digits stand for
ByteOf(c, i) == 16 * DigitValue(c[i]) + DigitValue(c[i + 1])

\* b with its uppercase hex digits in lowercase
LowerText(b) ==
    [i \in DOMAIN b |->
        IF b[i] \in UpperHexSet
        THEN CHOOSE x \in LowerHexSet : <<b[i], x>> \in CasePairs
        ELSE b[i]]

\* fields 5..7 are the decimal texts of the bytes of the colour the text stands for
RgbOf(fields, text) ==
    /\ WellFormed(text)
    /\ \A k \in 0 .. 2 :
          LET n == ByteOf(LowerText(Unhash(Trim(text))), 2 * k + 1)
          IN  n \in 0 .. 255 /\ DecimalOf(fields[5 + k], n)

\* C7: every payload apply_effect writes to four_zone_mode is
\* 'modeId,speed,brightness,direction,r,g,b' and a newline, all decimal
\* integers; modeId is the table's id of the selected mode name; r, g, b are
\* the base-16 values of the colour's digit pairs, each in 0..255, when a
\* colour is given, and 0,0,0 when none is given; a colour given but malformed
\* yields the invalid-format error and no payload.
C7_EffectPayload ==
    call.op = "effect" =>
        /\ call.r.attempted =>
              /\ call.r.path = KB_FOUR_MODE
              /\ OneLine(call.r.payload)
              /\ Len(Fields(call.r.payload)) = 7
              /\ DecimalOf(Fields(call.r.payload)[1],
                           MODE_NAME_TO_ID(mode_names[call.u.mode + 1]))
              /\ \E n \in 0 .. SpeedMax : DecimalOf(Fields(call.r.payload)[2], n)
              /\ \E n \in 0 .. PctMax : DecimalOf(Fields(call.r.payload)[3], n)
              /\ \E n \in DirMin .. DirMax : DecimalOf(Fields(call.r.payload)[4], n)
              /\ call.u.speed \in 0 .. SpeedMax =>
                    DecimalOf(Fields(call.r.payload)[2], call.u.speed)
              /\ call.u.brightness \in 0 .. PctMax =>
                    DecimalOf(Fields(call.r.payload)[3], call.u.brightness)
              /\ call.u.direction \in DirMin .. DirMax =>
                    DecimalOf(Fields(call.r.payload)[4], call.u.direction)
              /\ IF Trim(call.u.color) = <<>>
                 THEN \A k \in 5 .. 7 : Fields(call.r.payload)[k] = <<"0">>
                 ELSE RgbOf(Fields(call.r.payload), call.u.color)
        /\ Trim(call.u.color) # <<>> /\ ~WellFormed(call.u.color)
             /\ call.r.exc # "FileNotFoundError" =>
              /\ ~call.r.attempted
              /\ call.r.exc = "ValueError" /\ call.r.msg = InvalidColorMsg

\* the colour #FF00Aa was written as 255,0,170 after the wave mode's id
C7_Witness ==
    /\ call.op = "effect" /\ call.u.color = T_hash /\ call.u.mode = 2
    /\ call.r.attempted /\ call.r.wres = "ok"
    /\ Exists(fs, KB_FOUR_MODE) /\ fs[KB_FOUR_MODE].data = call.r.payload
    /\ SubSeq(Fields(call.r.payload), 5, 7) =
          <<<<"2", "5", "5">>, <<"0">>, <<"1", "7", "0">>>>

TypedBeyond(op, u) ==
    CASE op = "static" -> u.brightness \notin 0 .. PctMax
      [] op = "effect" ->
            \/ u.speed \notin 0 .. SpeedMax
            \/ u.brightness \notin 0 .. PctMax
            \/ u.direction \notin DirMin .. DirMax
      [] op = "fans" -> ~u.auto /\ (u.cpu \notin 0 .. PctMax \/ u.gpu \notin 0 .. PctMax)
      [] OTHER -> FALSE

\* The statement as the specification words it: a number outside its range
\* makes the operation fail with an out-of-range error and no write.
C9_RejectedWhenBeyond ==
    call.op \in Ops /\ TypedBeyond(call.op, call.u) /\ call.r.exc # "FileNotFoundError" =>
        ~call.r.attempted /\ call.r.exc = "ValueError"

\* the numeric fields of a payload, first to last, are decimal texts within ranges
NumbersWithin(P, first, ranges) ==
    /\ OneLine(P)
    /\ Len(Fields(P)) >= first + Len(ranges) - 1
    /\ \A k \in DOMAIN ranges :
          \E n \in ranges[k][1] .. ranges[k][2] : DecimalOf(Fields(P)[first + k - 1], n)

StaticRanges == <<<<0, PctMax>>>>
EffectRanges == <<<<0, SpeedMax>>, <<0, PctMax>>, <<DirMin, DirMax>>>>
FanRanges == <<<<0, PctMax>>, <<0, PctMax>>>>

\* what was typed into the numeric rows, in payload order
TypedNumbers(op, u) ==
    CASE op = "static" -> <<u.brightness>>
      [] op = "effect" -> <<u.speed, u.brightness, u.direction>>
      [] op = "fans" -> IF u.auto THEN <<0, 0>> ELSE <<u.cpu, u.gpu>>

RangesOf(op) ==
    CASE op = "static" -> StaticRanges [] op = "effect" -> EffectRanges
      [] op = "fans" -> FanRanges

FirstNumber(op) == CASE op = "static" -> 5 [] op = "effect" -> 2 [] op = "fans" -> 1

\* C9 (amended): the numeric rows keep their values within the inclusive
\* ranges (static brightness 0..100, effect speed 0..9, brightness 0..100,
\* direction 1..2, fan CPU and GPU 0..100): a number typed beyond a range is
\* not refused with an out-of-range error, it is written as the nearest bound;
\* so no payload written to per_zone_mode, four_zone_mode or fan_speed holds a
\* numeric field outside its range.
C9_NumbersWithinRanges ==
    /\ \A p \in {KB_PER_ZONE} : fs[p].data # <<>> => NumbersWithin(fs[p].data, 5, StaticRanges)
    /\ \A p \in {KB_FOUR_MODE} : fs[p].data # <<>> => NumbersWithin(fs[p].data, 2, EffectRanges)
    /\ \A p \in {PRED_FAN, NITRO_FAN} : fs[p].data # <<>> => NumbersWithin(fs[p].data, 1, FanRanges)
    /\ call.op \in {"static", "effect", "fans"} /\ call.r.exc # "FileNotFoundError" =>
          /\ call.r.attempted
          /\ NumbersWithin(call.r.payload, FirstNumber(call.op), RangesOf(call.op))
          /\ \A k \in DOMAIN RangesOf(call.op) :
                DecimalOf(Fields(call.r.payload)[FirstNumber(call.op) + k - 1],
                          Nearest(RangesOf(call.op)[k][1], RangesOf(call.op)[k][2],
                                  TypedNumbers(call.op, call.u)[k]))

\* a brightness of 150 was typed and per_zone_mode received 100
C9_Witness ==
    /\ call.op = "static" /\ call.u.brightness = 150
    /\ call.r.attempted /\ call.r.wres = "ok"
    /\ Fields(call.r.payload)[5] = <<"1", "0", "0">>
    /\ Exists(fs, KB_PER_ZONE) /\ fs[KB_PER_ZONE].data = call.r.payload

====
